---- MODULE Spec2Model ----
(***************************************************************************)
(* Order lifecycle and history of the IBKR scripts: the JSON history file  *)
(* (src/orders/history.py), the validators (src/orders/validators.py), the *)
(* option / stock / bracket submission workflows (src/workflows) and the   *)
(* clone flow (src/orders/cloning.py), against a gateway whose calls may   *)
(* raise and a file system whose reads and writes may fail.                *)
(*                                                                         *)
(* A Python dict is a TLA+ function from key strings to values: a key the  *)
(* dict does not hold is a key outside DOMAIN.  Prices are whole numbers   *)
(* of one price unit, symbols are sequences of characters.                 *)
(***************************************************************************)
EXTENDS Integers, Sequences, FiniteSets, TLC

VARIABLES
    file,        \* data/order_history.json: [kind, recs]
    clock,       \* datetime.now(), one tick per operation
    trades,      \* the gateway's orders, in the order they were placed
    sessions,    \* gateway sessions left open by the operations that returned
    persisted,   \* <<id, timestamp>> of every record a write stored (history variable)
    last,        \* what the last operation was given, did and returned
    calls,       \* the calls in flight, per caller (thread): where each is, what it holds
    app          \* the IBApi object of src/ibapi_client.py: its fields

vars == <<file, clock, trades, sessions, persisted, last, calls, app>>

----------------------------------------------------------------------------
(* Bounds of the model *)

\* operations (clock ticks) in one run
MaxClock == 2
\* orders the gateway accepts in one run
MaxTrades == 3
\* callers (threads or processes) that call the store on one history file
MaxCallers == 2

----------------------------------------------------------------------------
(* Python values *)

\* dict.get(key) with default
Get(d, k, default) == IF k \in DOMAIN d THEN d[k] ELSE default

\* d[key] = value on a dict
Put(d, k, v) == [x \in (DOMAIN d) \cup {k} |-> IF x = k THEN v ELSE d[x]]

\* dict.pop(key, None)
Pop(d, k) == [x \in (DOMAIN d) \ {k} |-> d[x]]

\* str.upper() on the characters of the model
UpperChar(c) == IF c = "a" THEN "A" ELSE c

\* str.upper() on a symbol
Upper(s) == [i \in 1..Len(s) |-> UpperChar(s[i])]

\* str.upper() on the action and instrument type strings of the model
UpperStr(s) ==
    CASE s = "buy" -> "BUY"
      [] s = "sell" -> "SELL"
      [] s = "hold" -> "HOLD"
      [] s = "stock" -> "STOCK"
      [] s = "option" -> "OPTION"
      [] OTHER -> s

\* str.isalpha() on a non-empty symbol
IsAlpha(s) == Len(s) > 0 /\ \A i \in 1..Len(s) : s[i] \in {"A", "a"}

\* re.match(r'^[A-Z]+$', s)
IsUpperLetters(s) == Len(s) > 0 /\ \A i \in 1..Len(s) : s[i] = "A"

----------------------------------------------------------------------------
(* The history file, src/orders/history.py *)

\* the file does not exist
MissingFile == [kind |-> "missing", recs |-> <<>>]

\* the file holds the JSON text of a list of records
OkFile(recs) == [kind |-> "ok", recs |-> recs]

\* the file was truncated by open(..., 'w') and holds no complete JSON text
CorruptFile == [kind |-> "corrupt", recs |-> <<>>]

\* how an open-for-write followed by json.dump can end
WriteOutcomes == {"ok", "open_fails", "dump_fails"}

\* how save_order_to_history can end: os.makedirs, which runs before its
\* try block, may raise as well
SaveOutcomes == WriteOutcomes \cup {"mkdir_fails"}

\* load_order_history without its try / except: what open / json.load
\* raise leaves the function
load_order_history_unguarded(f, readOk) ==
    IF f.kind = "missing" THEN [raised |-> FALSE, val |-> <<>>]
    ELSE IF f.kind = "ok" /\ readOk THEN [raised |-> FALSE, val |-> f.recs]
    ELSE [raised |-> TRUE, val |-> <<>>]

\* load_order_history: the records; [] when the file is missing, and []
\* when open / json.load raised (a truncated text, or readOk = FALSE: the
\* file cannot be read now).  raised: an exception leaves the function.
load_order_history(f, readOk) ==
    IF f.kind = "missing" THEN [raised |-> FALSE, val |-> <<>>]
    ELSE IF f.kind = "ok" /\ readOk THEN [raised |-> FALSE, val |-> f.recs]
    ELSE [raised |-> FALSE, val |-> <<>>]

\* with open(ORDER_HISTORY_FILE, 'w') as f: json.dump(recs, f, indent=2)
\* open truncates the file before a single byte of the new text is written
WriteFile(f, recs, w) ==
    CASE w = "ok" -> OkFile(recs)
      [] w = "open_fails" -> f
      [] w = "dump_fails" -> CorruptFile

\* save_order_to_history(order_data): make the directory, read, stamp,
\* number, append, rewrite.  What os.makedirs raises leaves the function;
\* the write's exception is caught and printed, and the function returns
\* None whether the record was written or not.
save_order_to_history(f, order_data, now, readOk, w) ==
    LET h == load_order_history(f, readOk)
        rec == Put(Put(order_data, "timestamp", now), "id", Len(h.val) + 1)
    IN  IF w = "mkdir_fails" \/ h.raised
        THEN [file |-> f, raised |-> TRUE, ret |-> "None", rec |-> order_data]
        ELSE [file |-> WriteFile(f, Append(h.val, rec), w), raised |-> FALSE,
              ret |-> "None", rec |-> rec]

\* index of the first record with that id, 0 when there is none
FirstWithId(recs, id) ==
    IF \E i \in 1..Len(recs) : recs[i]["id"] = id
    THEN CHOOSE i \in 1..Len(recs) :
            /\ recs[i]["id"] = id
            /\ \A j \in 1..(i - 1) : recs[j]["id"] # id
    ELSE 0

\* update_order_status(order_history_id, new_status): the whole body is in
\* one try; True after the rewrite, False when anything raised
update_order_status(f, order_history_id, new_status, now, readOk, w) ==
    LET h == load_order_history(f, readOk)
        k == FirstWithId(h.val, order_history_id)
        orders == [i \in 1..Len(h.val) |->
                     IF i = k
                     THEN Put(Put(h.val[i], "status", new_status), "updated_at", now)
                     ELSE h.val[i]]
    IN  IF h.raised
        THEN [file |-> f, raised |-> FALSE, ret |-> FALSE, orders |-> orders]
        ELSE [file |-> WriteFile(f, orders, w), raised |-> FALSE, ret |-> (w = "ok"),
              orders |-> orders]

\* get_order_by_id(order_id): <<record>>, or <<>> for None
get_order_by_id(f, order_id, readOk) ==
    LET h == load_order_history(f, readOk)
        k == FirstWithId(h.val, order_id)
    IN  IF h.raised THEN [raised |-> TRUE, val |-> <<>>]
        ELSE [raised |-> FALSE, val |-> IF k = 0 THEN <<>> ELSE <<h.val[k]>>]

\* search_orders(symbol, instrument_type, action); a filter that is None or
\* empty is not applied (symbol <<>>, instrument_type "", action "")
search_orders(f, symbol, instrument_type, action, readOk) ==
    LET h == load_order_history(f, readOk)
        BySymbol(o) == symbol = <<>> \/ Upper(Get(o, "symbol", <<>>)) = Upper(symbol)
        ByInstrument(o) == instrument_type = ""
                              \/ Get(o, "instrument_type", "") = instrument_type
        ByAction(o) == action = "" \/ UpperStr(Get(o, "action", "")) = UpperStr(action)
        Keep(o) == BySymbol(o) /\ ByInstrument(o) /\ ByAction(o)
    IN  IF h.raised THEN [raised |-> TRUE, val |-> <<>>]
        ELSE [raised |-> FALSE, val |-> SelectSeq(h.val, Keep)]

----------------------------------------------------------------------------
(* The validators, src/orders/validators.py.  Each returns <<>> when valid *)
(* and <<message>> when not; quantities are whole numbers (the workflows   *)
(* read them with int(...)), so "must be a whole number" never applies.    *)

\* config/settings.py
MAX_ORDER_VALUE == 50000
MAX_POSITION_SIZE == 100000
\* validators.py: the forex band and the price ceiling
FOREX_MIN_QUANTITY == 1000
FOREX_MAX_QUANTITY == 10000000
MAX_UNIT_PRICE == 1000000

validate_symbol(symbol, instrument_type) ==
    IF symbol = <<>> THEN <<"Symbol must be a non-empty string">>
    ELSE LET sym == Upper(symbol) IN
      CASE instrument_type = "forex" ->
             IF Len(sym) # 6 THEN <<"Forex symbols must be exactly 6 characters">>
             ELSE IF ~IsAlpha(sym) THEN <<"Forex symbols must contain only letters">>
             ELSE <<>>
        [] instrument_type = "stock" ->
             IF Len(sym) < 1 \/ Len(sym) > 5 THEN <<"Stock symbols must be 1-5 characters">>
             ELSE IF ~IsUpperLetters(sym)
                  THEN <<"Stock symbols must contain only uppercase letters">>
             ELSE <<>>
        [] instrument_type = "option" ->
             IF Len(sym) < 1 \/ Len(sym) > 5
             THEN <<"Option underlying symbols must be 1-5 characters">>
             ELSE <<>>
        [] OTHER -> <<>>

validate_quantity(qty, instrument_type) ==
    IF qty <= 0 THEN <<"Quantity must be positive">>
    ELSE IF qty > MAX_POSITION_SIZE THEN <<"Quantity exceeds maximum position size">>
    ELSE CASE instrument_type = "forex" ->
                IF qty < FOREX_MIN_QUANTITY THEN <<"Forex minimum quantity is 1,000">>
                ELSE IF qty > FOREX_MAX_QUANTITY
                     THEN <<"Forex maximum quantity is 10,000,000">>
                ELSE <<>>
           [] instrument_type \in {"stock", "option"} ->
                IF qty < 1 THEN <<"minimum quantity is 1">> ELSE <<>>
           [] OTHER -> <<>>

validate_price(price, price_type) ==
    IF price <= 0 THEN <<"price must be positive">>
    ELSE IF price > MAX_UNIT_PRICE THEN <<"price seems unreasonably high">>
    ELSE <<>>

validate_order_value(quantity, price, symbol) ==
    IF quantity * price > MAX_ORDER_VALUE THEN <<"Order value exceeds limit">> ELSE <<>>

\* validate_order_parameters: the error list.  limit_price and stop_price
\* are <<>> for None and <<p>> for a price.
validate_order_parameters(symbol, action, quantity, order_type, limit_price, stop_price, instrument_type) ==
    LET hasLimit == limit_price # <<>>
        hasStop == stop_price # <<>>
    IN  validate_symbol(symbol, instrument_type)
        \o (IF action \notin {"BUY", "SELL"} THEN <<"Action must be 'BUY' or 'SELL'">> ELSE <<>>)
        \o validate_quantity(quantity, instrument_type)
        \o (IF order_type \notin {1, 2, 3, 4} THEN <<"Order type must be 1, 2, 3 or 4">> ELSE <<>>)
        \o (IF order_type \in {2, 4} /\ hasLimit
            THEN validate_price(limit_price[1], "limit") ELSE <<>>)
        \o (IF order_type \in {3, 4} /\ hasStop
            THEN validate_price(stop_price[1], "stop") ELSE <<>>)
        \o (IF order_type = 2 /\ hasLimit
            THEN validate_order_value(quantity, limit_price[1], symbol) ELSE <<>>)
        \o (IF order_type = 4 /\ hasLimit /\ hasStop
            THEN IF action = "BUY" /\ limit_price[1] <= stop_price[1]
                 THEN <<"For BUY stop-limit orders, limit price must be higher than stop price">>
                 ELSE IF action = "SELL" /\ limit_price[1] >= stop_price[1]
                 THEN <<"For SELL stop-limit orders, limit price must be lower than stop price">>
                 ELSE <<>>
            ELSE <<>>)

\* the aggregate validation applied to an order_data dict
Opt(d, k) == IF k \in DOMAIN d THEN <<d[k]>> ELSE <<>>
ValidationErrors(d) ==
    validate_order_parameters(d["symbol"], d["action"], d["quantity"],
                              d["order_type_num"], Opt(d, "limit_price"),
                              Opt(d, "stop_price"), d["instrument_type"])

----------------------------------------------------------------------------
(* The gateway as the workflows use it (ib_insync) *)

\* ib_insync's value of a price that is not set
UNSET_DOUBLE == -1

MarketOrder(action, totalQuantity) ==
    [orderType |-> "MKT", action |-> action, totalQuantity |-> totalQuantity,
     lmtPrice |-> UNSET_DOUBLE, auxPrice |-> UNSET_DOUBLE]

LimitOrder(action, totalQuantity, lmtPrice) ==
    [orderType |-> "LMT", action |-> action, totalQuantity |-> totalQuantity,
     lmtPrice |-> lmtPrice, auxPrice |-> UNSET_DOUBLE]

StopOrder(action, totalQuantity, stopPrice) ==
    [orderType |-> "STP", action |-> action, totalQuantity |-> totalQuantity,
     lmtPrice |-> UNSET_DOUBLE, auxPrice |-> stopPrice]

StopLimitOrder(action, totalQuantity, lmtPrice, stopPrice) ==
    [orderType |-> "STP LMT", action |-> action, totalQuantity |-> totalQuantity,
     lmtPrice |-> lmtPrice, auxPrice |-> stopPrice]

\* the gateway calls of one submission, in order; one of them may raise
GatewaySteps == <<"connect", "qualify", "place", "sleep">>

\* str(e) of the exception a gateway call raised
ErrorMessage(step) == step \o " failed"

\* the status the gateway reports for an order once ib.sleep has run
ReportedStatuses == {"Submitted", "Filled"}

\* the status of the Trade that ib.placeOrder returns, before any ib.sleep
PendingSubmit == "PendingSubmit"

\* one run of the gateway during a submission: the call that raises (or
\* "none") and the status reported after the wait
GatewayRuns(steps) ==
    {[failAt |-> "none", status |-> st] : st \in ReportedStatuses}
    \cup {[failAt |-> x, status |-> PendingSubmit] : x \in steps}

\* ib.placeOrder(contract, order): the Trade, with the next order id
PlaceOrder(tr, contract, order, status) ==
    [orderId |-> Len(tr) + 1, contract |-> contract, order |-> order,
     status |-> status]

\* whether the run gets as far as a successful ib.placeOrder
Places(run) == run.failAt \in {"none", "sleep"}

\* whether open / read succeed, as the environment decides: it matters
\* only for a file that holds a complete JSON text
ReadOutcomes(f) == IF f.kind = "ok" THEN BOOLEAN ELSE {TRUE}

----------------------------------------------------------------------------
(* What an operation leaves behind *)

\* the outcome of one submission workflow
\*   draft    the order_data built from the input, before the gateway
\*   opened   ib.connect succeeded
\*   reached  the gateway boundary was reached: an order was placed or a
\*            gateway call raised
\*   placed   the order ids placed, raised the message of the exception a
\*            gateway call raised ("" when none did), escaped whether an
\*            exception left the workflow, saves the calls of
\*            save_order_to_history, stored whether the write succeeded
\* sessions counts the sessions the workflow leaves open: 0 where
\* ib.disconnect() is the whole finally block
Outcome(op, draft, now, f, tr, opened, placed, raised, escaped, saves, stored) ==
    [file |-> f, trades |-> tr, sessions |-> 0,
     last |-> [op |-> op, draft |-> draft, now |-> now, opened |-> opened,
               reached |-> (placed # <<>> \/ raised # ""), placed |-> placed,
               raised |-> raised, escaped |-> escaped, saves |-> saves,
               stored |-> stored]]

\* the outcome res, with one more thing noted about the operation
Noting(res, k, v) == [res EXCEPT !.last = Put(res.last, k, v)]

\* the workflow returned before its try block: nothing was touched
Untouched(op, draft, now, f, tr) ==
    Outcome(op, draft, now, f, tr, FALSE, <<>>, "", FALSE, 0, FALSE)

\* the workflow returned from inside its try block, after ib.connect and
\* before ib.placeOrder
ReturnedEarly(op, draft, now, f, tr) ==
    Outcome(op, draft, now, f, tr, TRUE, <<>>, "", FALSE, 0, FALSE)

\* the order object for order type 1..4, as option_order_workflow,
\* create_order_from_data and create_order build it: the stop price is
\* passed first and the limit price second to StopLimitOrder
OrderStopFirst(d) ==
    CASE d["order_type_num"] = 1 -> MarketOrder(d["action"], d["quantity"])
      [] d["order_type_num"] = 2 ->
            LimitOrder(d["action"], d["quantity"], d["limit_price"])
      [] d["order_type_num"] = 3 ->
            StopOrder(d["action"], d["quantity"], d["stop_price"])
      [] d["order_type_num"] = 4 ->
            StopLimitOrder(d["action"], d["quantity"], d["stop_price"], d["limit_price"])

\* order_type_names in the workflows, ORDER_TYPES in config/settings.py
OrderTypeName(n) ==
    CASE n = 1 -> "Market Order"
      [] n = 2 -> "Limit Order"
      [] n = 3 -> "Stop Order"
      [] n = 4 -> "Stop Limit Order"

\* the price keys the workflows add for the order type
WithPrices(d, inp) ==
    LET n == inp.order_type
        d1 == IF n \in {3, 4} THEN Put(d, "stop_price", inp.stop_price) ELSE d
    IN  IF n \in {2, 4} THEN Put(d1, "limit_price", inp.limit_price) ELSE d1

\* try / except of option_order_workflow and submit_cloned_order, from
\* ib.connect on: place, wait, record the result and save; on any
\* exception record ERROR and save; disconnect in finally
SubmitSavingInTry(op, order_data, contract, order, run, f, tr, now, readOk, w) ==
    LET trade == PlaceOrder(tr, contract, order, run.status)
        failed == run.failAt # "none"
        data == IF failed
                THEN Put(Put(order_data, "status", "ERROR"),
                         "error", ErrorMessage(run.failAt))
                ELSE Put(Put(order_data, "status", trade.status),
                         "order_id", trade.orderId)
        sv == save_order_to_history(f, data, now, readOk, w)
    IN  Outcome(op, order_data, now, sv.file,
                IF Places(run) THEN Append(tr, trade) ELSE tr,
                run.failAt # "connect",
                IF Places(run) THEN <<trade.orderId>> ELSE <<>>,
                IF failed THEN ErrorMessage(run.failAt) ELSE "",
                sv.raised, 1, ~sv.raised /\ w = "ok")

\* option_order_workflow(): inp is what the user typed
option_order_workflow(inp, confirm, run, f, tr, now, readOk, w) ==
    LET order_data == WithPrices(
            [symbol |-> inp.symbol, expiry |-> "20241220", strike |-> 150,
             right |-> "C", action |-> inp.action, quantity |-> inp.quantity,
             order_type |-> OrderTypeName(inp.order_type),
             order_type_num |-> inp.order_type, instrument_type |-> "option"], inp)
        order == OrderStopFirst(order_data)
        contract == [secType |-> "OPT", symbol |-> inp.symbol]
    IN  IF ~confirm THEN Untouched("option", order_data, now, f, tr)
        ELSE SubmitSavingInTry("option", order_data, contract, order, run,
                               f, tr, now, readOk, w)

\* simple_order_workflow(symbol, action, quantity, exchange, currency):
\* the result is recorded in try / except, the record is saved in finally,
\* and the status is read from the Trade as ib.placeOrder returned it
simple_order_workflow(inp, confirm, run, f, tr, now, readOk, w) ==
    LET order_data == WithPrices(
            [symbol |-> inp.symbol, action |-> inp.action, quantity |-> inp.quantity,
             exchange |-> "SMART", currency |-> "USD", instrument_type |-> "stock",
             order_type_num |-> inp.order_type,
             order_type |-> OrderTypeName(inp.order_type)], inp)
        order ==
            CASE inp.order_type = 1 -> MarketOrder(inp.action, inp.quantity)
              [] inp.order_type = 2 ->
                    LimitOrder(inp.action, inp.quantity, inp.limit_price)
              [] inp.order_type = 3 ->
                    StopOrder(inp.action, inp.quantity, inp.stop_price)
              [] inp.order_type = 4 ->
                    StopLimitOrder(inp.action, inp.quantity, inp.limit_price, inp.stop_price)
        contract == [secType |-> "STK", symbol |-> inp.symbol]
        trade == PlaceOrder(tr, contract, order, PendingSubmit)
        failed == run.failAt # "none"
        data == IF failed
                THEN Put(Put(order_data, "status", "ERROR"),
                         "error", ErrorMessage(run.failAt))
                ELSE Put(Put(order_data, "order_id", trade.orderId),
                         "status", trade.status)
        sv == save_order_to_history(f, data, now, readOk, w)
    IN  IF ~confirm THEN Untouched("simple", order_data, now, f, tr)
        ELSE [Outcome("simple", order_data, now, sv.file,
                      IF Places(run) THEN Append(tr, trade) ELSE tr,
                      run.failAt # "connect",
                      IF Places(run) THEN <<trade.orderId>> ELSE <<>>,
                      IF failed THEN ErrorMessage(run.failAt) ELSE "",
                      sv.raised, 1, ~sv.raised /\ w = "ok")
              \* finally: save_order_to_history(order_data); ib.disconnect()
              EXCEPT !.sessions = IF run.failAt # "connect" /\ sv.raised
                                  THEN 1 ELSE 0]

\* validate_bracket_prices(entry_price, stop_loss_price, take_profit_price,
\* action, parent_type): the list of messages
validate_bracket_prices(entry_price, stop_loss_price, take_profit_price, action, parent_type) ==
    LET withEntry == parent_type = 2 /\ entry_price > 0 IN
    (IF UpperStr(action) = "BUY"
     THEN (IF withEntry /\ stop_loss_price >= entry_price
           THEN <<"For BUY orders, stop loss must be below entry price">> ELSE <<>>)
          \o (IF withEntry /\ take_profit_price <= entry_price
              THEN <<"For BUY orders, take profit must be above entry price">> ELSE <<>>)
          \o (IF stop_loss_price >= take_profit_price
              THEN <<"For BUY orders, stop loss must be below take profit">> ELSE <<>>)
     ELSE (IF withEntry /\ stop_loss_price <= entry_price
           THEN <<"For SELL orders, stop loss must be above entry price">> ELSE <<>>)
          \o (IF withEntry /\ take_profit_price >= entry_price
              THEN <<"For SELL orders, take profit must be below entry price">> ELSE <<>>)
          \o (IF stop_loss_price <= take_profit_price
              THEN <<"For SELL orders, stop loss must be above take profit">> ELSE <<>>))
    \o (IF stop_loss_price <= 0 THEN <<"Stop loss price must be positive">> ELSE <<>>)
    \o (IF take_profit_price <= 0 THEN <<"Take profit price must be positive">> ELSE <<>>)

\* Python's None where an order id is expected (order ids start at 1)
NONE == 0

\* the order id of the last trade of ts whose order type is in types, or None
LastIdOfType(ts, types) ==
    LET hits == {k \in 1..Len(ts) : ts[k].order.orderType \in types}
    IN  IF hits = {} THEN NONE
        ELSE ts[CHOOSE k \in hits : \A j \in hits : j <= k].orderId

\* the runs of the gateway during a bracket submission: legs are the legs
\* (1..3, in submission order) whose ib.placeOrder raises
BracketRuns ==
    {[failAt |-> "none", legs |-> L] : L \in SUBSET {1, 2, 3}}
    \cup {[failAt |-> x, legs |-> {}] : x \in {"connect", "qualify", "sleep"}}

\* stock_order_workflow() with order_choice 2: the bracket order
stock_order_workflow(inp, confirm, run, f, tr, now, readOk, w) ==
    LET base == [symbol |-> inp.symbol, action |-> inp.action,
                 quantity |-> inp.quantity, exchange |-> "SMART",
                 currency |-> "USD", order_type |-> "Bracket Order",
                 order_type_num |-> 5, instrument_type |-> "stock"]
        d1 == IF inp.parent_type = 1
              THEN Put(base, "parent_order_type", "Market")
              ELSE Put(Put(base, "parent_order_type", "Limit"),
                       "limit_price", inp.limit_price)
        parent_order == IF inp.parent_type = 1
                        THEN MarketOrder(inp.action, inp.quantity)
                        ELSE LimitOrder(inp.action, inp.quantity, inp.limit_price)
        errors == validate_bracket_prices(Get(d1, "limit_price", 0),
                      inp.stop_loss_price, inp.take_profit_price,
                      inp.action, inp.parent_type)
        order_data == Put(Put(d1, "stop_loss_price", inp.stop_loss_price),
                          "take_profit_price", inp.take_profit_price)
        exitSide == IF inp.action = "BUY" THEN "SELL" ELSE "BUY"
        stop_loss_order == StopOrder(exitSide, inp.quantity, inp.stop_loss_price)
        take_profit_order == LimitOrder(exitSide, inp.quantity, inp.take_profit_price)
        \* BracketOrder is the named tuple (parent, takeProfit, stopLoss)
        bracket_orders == <<parent_order, take_profit_order, stop_loss_order>>
        contract == [secType |-> "STK", symbol |-> inp.symbol]
        Placed(i) == i \notin run.legs
        okLegs == SelectSeq(<<1, 2, 3>>, Placed)
        ts == IF run.failAt \in {"connect", "qualify"} THEN <<>>
              ELSE [k \in 1..Len(okLegs) |->
                      [orderId |-> Len(tr) + k, contract |-> contract,
                       order |-> bracket_orders[okLegs[k]], status |-> "Submitted"]]
        order_ids == [k \in 1..Len(ts) |-> ts[k].orderId]
        failed == run.failAt # "none"
        data ==
            IF failed
            THEN Put(Put(order_data, "status", "ERROR"),
                     "error", ErrorMessage(run.failAt))
            ELSE IF ts # <<>>
            THEN [k \in (DOMAIN order_data) \cup
                        {"parent_order_id", "stop_loss_order_id",
                         "take_profit_order_id", "all_order_ids", "status",
                         "total_orders"} |->
                    CASE k = "parent_order_id" -> LastIdOfType(ts, {"MKT", "LMT"})
                      [] k = "stop_loss_order_id" -> LastIdOfType(ts, {"STP"})
                      [] k = "take_profit_order_id" -> NONE
                      [] k = "all_order_ids" -> order_ids
                      [] k = "status" -> "BRACKET_SUBMITTED"
                      [] k = "total_orders" -> Len(ts)
                      [] OTHER -> order_data[k]]
            ELSE Put(order_data, "status", "FAILED")
        sv == save_order_to_history(f, data, now, readOk, w)
    IN  IF errors # <<>> THEN Untouched("bracket", d1, now, f, tr)
        ELSE IF ~confirm THEN Untouched("bracket", order_data, now, f, tr)
        ELSE Noting(Outcome("bracket", order_data, now, sv.file, tr \o ts,
                            run.failAt # "connect", order_ids,
                            IF failed THEN ErrorMessage(run.failAt)
                            ELSE IF run.legs # {} THEN "place failed" ELSE "",
                            sv.raised, 1, ~sv.raised /\ w = "ok"),
                    "legs", IF failed THEN {1, 2, 3} ELSE run.legs)

----------------------------------------------------------------------------
(* Cloning, src/orders/cloning.py *)

\* create_contract(order_data): <<contract>>, or <<>> for None (an
\* instrument type it does not know, or a key the dict does not hold)
create_contract(order_data) ==
    CASE order_data["instrument_type"] = "forex" ->
            <<[secType |-> "CASH", symbol |-> order_data["symbol"]]>>
      [] order_data["instrument_type"] = "stock" ->
            <<[secType |-> "STK", symbol |-> order_data["symbol"]]>>
      [] order_data["instrument_type"] = "option" ->
            IF {"expiry", "strike", "right"} \subseteq DOMAIN order_data
            THEN <<[secType |-> "OPT", symbol |-> order_data["symbol"]]>>
            ELSE <<>>
      [] OTHER -> <<>>

\* create_order_from_data(order_data): <<order>>, or <<>> for None (an
\* order type outside 1..4, or a price key the dict does not hold)
create_order_from_data(order_data) ==
    LET n == order_data["order_type_num"] IN
    IF n \notin {1, 2, 3, 4} THEN <<>>
    ELSE IF n \in {2, 4} /\ "limit_price" \notin DOMAIN order_data THEN <<>>
    ELSE IF n \in {3, 4} /\ "stop_price" \notin DOMAIN order_data THEN <<>>
    ELSE <<OrderStopFirst(order_data)>>

\* submit_cloned_order(order_data)
submit_cloned_order(op, order_data, run, f, tr, now, readOk, w) ==
    LET contract == create_contract(order_data)
        order == create_order_from_data(order_data)
    IN  IF run.failAt = "connect"
        THEN SubmitSavingInTry(op, order_data, <<>>, <<>>, run, f, tr, now, readOk, w)
        ELSE IF contract = <<>> THEN ReturnedEarly(op, order_data, now, f, tr)
        ELSE IF run.failAt = "qualify"
        THEN SubmitSavingInTry(op, order_data, contract[1], <<>>, run, f, tr,
                               now, readOk, w)
        ELSE IF order = <<>> THEN ReturnedEarly(op, order_data, now, f, tr)
        ELSE SubmitSavingInTry(op, order_data, contract[1], order[1], run,
                               f, tr, now, readOk, w)

\* quick_clone_order that clones the most recent record when no record has
\* the id asked for
quick_clone_order_latest(order_id, symbol, quantity, action, run, f, tr, now, readFirst, readOk, w) ==
    LET history == load_order_history(f, readFirst).val
        k == IF FirstWithId(history, order_id) # 0 THEN FirstWithId(history, order_id)
             ELSE Len(history)
        copy == Pop(Pop(Pop(history[k], "id"), "timestamp"), "order_id")
        overrides == [symbol |-> symbol, quantity |-> quantity, action |-> action]
        res == IF k = 0 THEN Untouched("clone", <<>>, now, f, tr)
               ELSE submit_cloned_order("clone", copy, run, f, tr, now, readOk, w)
    IN  Noting(Noting(res, "order_id", order_id), "overrides", overrides)

\* quick_clone_order(order_id, symbol, quantity, action): an override that
\* is None or falsy (<<>>, 0, "") is not applied.  readFirst is the outcome
\* of its own read of the history, readOk that of the read inside the save.
quick_clone_order(order_id, symbol, quantity, action, run, f, tr, now, readFirst, readOk, w) ==
    LET history == load_order_history(f, readFirst).val
        k == FirstWithId(history, order_id)
        copy == Pop(Pop(Pop(history[k], "id"), "timestamp"), "order_id")
        d1 == IF symbol # <<>> THEN Put(copy, "symbol", symbol) ELSE copy
        d2 == IF quantity # 0 THEN Put(d1, "quantity", quantity) ELSE d1
        new_order_data == IF action # "" THEN Put(d2, "action", action) ELSE d2
        overrides == [symbol |-> symbol, quantity |-> quantity, action |-> action]
        res == IF k = 0 THEN Untouched("clone", <<>>, now, f, tr)
               ELSE submit_cloned_order("clone", new_order_data, run, f, tr, now,
                                        readOk, w)
    IN  Noting(Noting(res, "order_id", order_id), "overrides", overrides)

\* get_edited_parameters(original_order): edit is what the user typed at
\* each prompt, <<>> for Enter and <<v>> for the value v ("" for Enter at
\* the action prompt).  The new dict is built from scratch; a price is
\* added when it is neither None nor 0.  <<>> is returned for the KeyError
\* of order_types[new_order_type] (an original of order type 5 that is kept).
get_edited_parameters(original_order, edit) ==
    LET new_symbol == IF edit.symbol # <<>> THEN Upper(edit.symbol[1])
                      ELSE original_order["symbol"]
        action_input == UpperStr(edit.action)
        new_action == IF action_input \in {"BUY", "SELL"} THEN action_input
                      ELSE original_order["action"]
        new_quantity == IF edit.quantity # <<>> THEN edit.quantity[1]
                        ELSE original_order["quantity"]
        current_type_num == Get(original_order, "order_type_num", 1)
        new_order_type == IF edit.order_type # <<>> /\ edit.order_type[1] \in {1, 2, 3, 4}
                          THEN edit.order_type[1] ELSE current_type_num
        new_limit_price == IF new_order_type \notin {2, 4} THEN <<>>
                           ELSE IF edit.limit_price # <<>> THEN edit.limit_price
                           ELSE Opt(original_order, "limit_price")
        new_stop_price == IF new_order_type \notin {3, 4} THEN <<>>
                          ELSE IF edit.stop_price # <<>> THEN edit.stop_price
                          ELSE Opt(original_order, "stop_price")
        instrument == Get(original_order, "instrument_type", "forex")
        d0 == [symbol |-> new_symbol, action |-> new_action, quantity |-> new_quantity,
               order_type |-> OrderTypeName(new_order_type),
               order_type_num |-> new_order_type, instrument_type |-> instrument]
        d1 == CASE instrument = "stock" ->
                     Put(Put(d0, "exchange", Get(original_order, "exchange", "SMART")),
                         "currency", Get(original_order, "currency", "USD"))
                [] instrument = "option" ->
                     Put(Put(Put(d0, "expiry", Get(original_order, "expiry", "None")),
                             "strike", Get(original_order, "strike", NONE)),
                         "right", Get(original_order, "right", "None"))
                [] OTHER -> d0
        d2 == IF new_limit_price # <<>> /\ new_limit_price[1] # 0
              THEN Put(d1, "limit_price", new_limit_price[1]) ELSE d1
        d3 == IF new_stop_price # <<>> /\ new_stop_price[1] # 0
              THEN Put(d2, "stop_price", new_stop_price[1]) ELSE d2
    IN  IF new_order_type \notin {1, 2, 3, 4} THEN <<>> ELSE <<d3>>

\* clone_order(): order_id is the id the user typed that the history
\* holds (the prompt repeats until there is one), edit the answers to
\* get_edited_parameters, confirm the answer to "Submit this cloned order?"
clone_order(order_id, edit, confirm, run, f, tr, now, readFirst, readOk, w) ==
    LET history == load_order_history(f, readFirst).val
        k == FirstWithId(history, order_id)
        new_order_data == get_edited_parameters(history[k], edit)
        escaped == [Untouched("clone_order", <<>>, now, f, tr)
                    EXCEPT !.last.escaped = TRUE]
        res == IF history = <<>> \/ k = 0 THEN Untouched("clone_order", <<>>, now, f, tr)
               ELSE IF new_order_data = <<>> THEN escaped
               ELSE IF ~confirm
               THEN Untouched("clone_order", new_order_data[1], now, f, tr)
               ELSE submit_cloned_order("clone_order", new_order_data[1], run, f, tr,
                                        now, readOk, w)
    IN  Noting(Noting(res, "order_id", order_id), "edit", edit)

----------------------------------------------------------------------------
(* What the user types *)

\* symbol, action, quantity, order type 1..4 and the prices it asks for
\* (a price the order type does not ask for is never read).  symbols is
\* <<a valid symbol, an invalid one>>.  One input per order type, with and
\* without each kind of validation error:
\*   a valid market, limit and stop-limit order, a stop order for quantity
\*   0, a SELL stop-limit whose limit is above its stop, a symbol that
\*   validate_symbol rejects
OrderInputs(symbols) ==
    LET In(s, a, q, n, lp, sp) ==
            [symbol |-> s, action |-> a, quantity |-> q, order_type |-> n,
             limit_price |-> lp, stop_price |-> sp]
    IN  {In(symbols[1], "BUY", 100, 1, 0, 0),
         In(symbols[1], "SELL", 100, 2, 20, 0),
         In(symbols[1], "BUY", 0, 3, 0, 10),
         In(symbols[1], "BUY", 100, 4, 20, 10),
         In(symbols[1], "SELL", 100, 4, 20, 10),
         In(symbols[2], "BUY", 100, 1, 0, 0)}

----------------------------------------------------------------------------
(* The operations *)

\* a caller that is not inside a store call
Idle == [pc |-> "idle"]

\* no caller is inside a store call
NoCalls == [p \in 1..MaxCallers |-> Idle]

\* IBApi.__init__: self.next_valid_order_id = None
NewApp == [next_valid_order_id |-> NONE]

Init ==
    /\ file = MissingFile
    /\ clock = 1
    /\ trades = <<>>
    /\ sessions = 0
    /\ persisted = <<>>
    /\ last = [op |-> "none"]
    /\ calls = NoCalls
    /\ app = NewApp

\* the effect of a workflow whose outcome is res; last.before and
\* last.tradesBefore keep the file and the gateway's orders as the
\* workflow found them
Apply(res) ==
    /\ Len(res.trades) <= MaxTrades
    /\ file' = res.file
    /\ trades' = res.trades
    /\ sessions' = sessions + res.sessions
    /\ UNCHANGED <<calls, app>>
    /\ last' = Put(Put(res.last, "before", file), "tradesBefore", trades)
    /\ clock' = clock + 1
    /\ persisted' =
          IF res.last.stored
          THEN LET r == res.file.recs[Len(res.file.recs)]
               IN  Append(persisted, <<r["id"], r["timestamp"]>>)
          ELSE persisted

OptionOrder ==
    /\ clock <= MaxClock
    /\ \E inp \in OrderInputs(<<<<"A">>, <<>>>>), confirm \in BOOLEAN,
          run \in GatewayRuns({"connect", "qualify", "place", "sleep"}),
          readOk \in ReadOutcomes(file), w \in SaveOutcomes :
          Apply(option_order_workflow(inp, confirm, run, file, trades, clock, readOk, w))

SimpleOrder ==
    /\ clock <= MaxClock
    /\ \E inp \in OrderInputs(<<<<"A">>, <<"1">>>>), confirm \in BOOLEAN,
          run \in GatewayRuns({"connect", "qualify", "place"}),
          readOk \in ReadOutcomes(file), w \in SaveOutcomes :
          Apply(simple_order_workflow(inp, confirm, run, file, trades, clock, readOk, w))

\* what the user types for a bracket order: a valid BUY with a market and
\* with a limit parent, a valid SELL, a BUY whose stop loss is above its
\* take profit (validate_bracket_prices rejects it), a BUY of quantity 0
BracketInputs ==
    LET In(a, q, pt, lp, sl, tp) ==
            [symbol |-> <<"A">>, action |-> a, quantity |-> q, parent_type |-> pt,
             limit_price |-> lp, stop_loss_price |-> sl, take_profit_price |-> tp]
    IN  {In("BUY", 100, 1, 0, 10, 30), In("BUY", 100, 2, 20, 10, 30),
         In("SELL", 100, 2, 20, 30, 10), In("BUY", 100, 2, 20, 30, 10),
         In("BUY", 0, 1, 0, 10, 30)}

BracketOrder ==
    /\ clock <= MaxClock
    /\ \E inp \in BracketInputs, confirm \in BOOLEAN, run \in BracketRuns,
          readOk \in ReadOutcomes(file), w \in SaveOutcomes :
          Apply(stock_order_workflow(inp, confirm, run, file, trades, clock, readOk, w))

\* the overrides of a quick clone: none, a quantity, a symbol
\* validate_symbol rejects for a stock, a negative quantity, an action
CloneOverrides ==
    LET Ov(s, q, a) == [symbol |-> s, quantity |-> q, action |-> a]
    IN  {Ov(<<>>, 0, ""), Ov(<<>>, 20000, ""), Ov(<<"1">>, 0, ""),
         Ov(<<>>, -5, ""), Ov(<<>>, 0, "SELL")}

QuickClone ==
    /\ clock <= MaxClock
    /\ \E order_id \in 1..MaxClock, ov \in CloneOverrides,
          run \in GatewayRuns({"connect", "qualify", "place", "sleep"}),
          readFirst \in ReadOutcomes(file), readOk \in ReadOutcomes(file),
          w \in SaveOutcomes :
          Apply(quick_clone_order(order_id, ov.symbol, ov.quantity, ov.action,
                                  run, file, trades, clock, readFirst, readOk, w))

\* what the user answers to the prompts of get_edited_parameters: Enter
\* everywhere; a change to a limit order without and with a price; a
\* change to a SELL stop-limit order with the limit price 0; a change to a
\* market order of another symbol and quantity
CloneEdits ==
    LET Ed(s, a, q, n, lp, sp) ==
            [symbol |-> s, action |-> a, quantity |-> q, order_type |-> n,
             limit_price |-> lp, stop_price |-> sp]
    IN  {Ed(<<>>, "", <<>>, <<>>, <<>>, <<>>),
         Ed(<<>>, "", <<>>, <<2>>, <<>>, <<>>),
         Ed(<<>>, "", <<>>, <<2>>, <<25>>, <<>>),
         Ed(<<>>, "sell", <<>>, <<4>>, <<0>>, <<10>>),
         Ed(<<<<"a">>>>, "", <<50>>, <<1>>, <<>>, <<>>)}

\* clone_order(), menu entry of scripts/3_order_submission.py: the id is
\* one the history read holds, or any when the read found nothing
CloneOrder ==
    /\ clock <= MaxClock
    /\ \E order_id \in 1..MaxClock, edit \in CloneEdits, confirm \in BOOLEAN,
          run \in GatewayRuns({"connect", "qualify", "place", "sleep"}),
          readFirst \in ReadOutcomes(file), readOk \in ReadOutcomes(file),
          w \in SaveOutcomes :
          LET history == load_order_history(file, readFirst).val
          IN  /\ IF history = <<>> THEN order_id = 1
                 ELSE FirstWithId(history, order_id) # 0
              /\ Apply(clone_order(order_id, edit, confirm, run, file, trades,
                                   clock, readFirst, readOk, w))

\* cancel_single_order(order_data) of scripts/3_order_submission.py, given
\* a record of the history: connectOk is whether connect_to_ibkr returns a
\* session, raising the order ids whose ib.cancelOrder raises.  A request
\* that is sent puts an order the gateway still works into PendingCancel.
cancel_single_order(order_data, connectOk, raising, f, tr, now, readOk, w) ==
    LET Id(k) == IF Get(order_data, k, NONE) # NONE THEN <<order_data[k]>> ELSE <<>>
        order_ids ==
            Id("order_id")
            \o (IF Get(order_data, "order_type", "") = "Bracket Order"
                THEN Id("parent_order_id") \o Id("stop_loss_order_id")
                     \o Id("take_profit_order_id")
                ELSE <<>>)
        sent == {order_ids[i] : i \in {j \in 1..Len(order_ids) :
                                           order_ids[j] \notin raising}}
        tr2 == [i \in 1..Len(tr) |->
                  IF tr[i].orderId \in sent
                     /\ tr[i].status \in {"PendingSubmit", "PreSubmitted", "Submitted"}
                  THEN [tr[i] EXCEPT !.status = "PendingCancel"]
                  ELSE tr[i]]
        up == update_order_status(f, order_data["id"], "CANCEL_REQUESTED",
                                  now, readOk, w)
        Result(f2, t2, opened, requested, updated) ==
            [file |-> f2, trades |-> t2, sessions |-> 0,
             last |-> [op |-> "cancel", draft |-> order_data, now |-> now,
                       opened |-> opened, requested |-> requested,
                       updated |-> updated, stored |-> FALSE]]
    IN  IF ~connectOk THEN Result(f, tr, FALSE, {}, FALSE)
        ELSE IF order_ids = <<>> THEN Result(f, tr, TRUE, {}, FALSE)
        ELSE IF sent = {} THEN Result(f, tr, TRUE, {}, FALSE)
        ELSE Result(up.file, tr2, TRUE, sent, TRUE)

CancelSingleOrder ==
    /\ clock <= MaxClock
    /\ file.kind = "ok"
    /\ \E k \in 1..Len(file.recs), connectOk \in BOOLEAN,
          raising \in SUBSET (1..Len(trades)),
          readOk \in ReadOutcomes(file), w \in WriteOutcomes :
          Apply(cancel_single_order(file.recs[k], connectOk, raising, file,
                                    trades, clock, readOk, w))

Next ==
    \/ OptionOrder
    \/ SimpleOrder
    \/ BracketOrder
    \/ QuickClone
    \/ CloneOrder
    \/ CancelSingleOrder

Spec == Init /\ [][Next]_vars

----------------------------------------------------------------------------
(* The record store called directly: append is save_order_to_history,      *)
(* update_status is update_order_status, load_all is load_order_history,   *)
(* find_by_id is get_order_by_id, filter is search_orders.                 *)

\* store calls that stamp a time, in one run
MaxStoreOps == 3

\* records as the workflows hand them to save_order_to_history
StoreDrafts ==
    {[symbol |-> <<"A">>, action |-> "BUY", quantity |-> 100,
      order_type |-> "Market Order", order_type_num |-> 1,
      instrument_type |-> "stock", status |-> "Submitted", order_id |-> 7],
     [symbol |-> <<"a">>, action |-> "sell", quantity |-> 100,
      order_type |-> "Limit Order", order_type_num |-> 2, limit_price |-> 20,
      instrument_type |-> "option", status |-> "ERROR", error |-> "place failed"]}

\* the file as an operation found it is kept in last.before, the outcome
\* of its write in last.w, the list it wrote in last.intended
StoreAppend ==
    /\ clock <= MaxStoreOps
    /\ \E order_data \in StoreDrafts, readOk \in ReadOutcomes(file),
          w \in SaveOutcomes :
          LET sv == save_order_to_history(file, order_data, clock, readOk, w)
              stored == ~sv.raised /\ w = "ok"
          IN  /\ file' = sv.file
              /\ last' = [op |-> "append", input |-> order_data, now |-> clock,
                          ret |-> sv.ret, raised |-> sv.raised, rec |-> sv.rec,
                          w |-> w, stored |-> stored, before |-> file,
                          intended |-> Append(load_order_history(file, readOk).val,
                                              sv.rec)]
              /\ persisted' = IF stored
                              THEN Append(persisted, <<sv.rec["id"], sv.rec["timestamp"]>>)
                              ELSE persisted
    /\ clock' = clock + 1
    /\ UNCHANGED <<trades, sessions, calls, app>>

StoreUpdateStatus ==
    /\ clock <= MaxStoreOps
    /\ \E id \in 1..MaxStoreOps, new_status \in {"CANCEL_REQUESTED"},
          readOk \in ReadOutcomes(file), w \in WriteOutcomes :
          LET up == update_order_status(file, id, new_status, clock, readOk, w)
          IN  /\ file' = up.file
              /\ last' = [op |-> "update_status", id |-> id, status |-> new_status,
                          now |-> clock, ret |-> up.ret, raised |-> up.raised,
                          w |-> w, before |-> file, intended |-> up.orders,
                          found |-> FirstWithId(file.recs, id) # 0]
    /\ clock' = clock + 1
    /\ UNCHANGED <<trades, sessions, persisted, calls, app>>

StoreLoadAll ==
    /\ \E readOk \in ReadOutcomes(file) :
          LET h == load_order_history(file, readOk)
          IN  last' = [op |-> "load_all", raised |-> h.raised, val |-> h.val,
                       readable |-> (file.kind = "ok" /\ readOk)]
    /\ UNCHANGED <<file, clock, trades, sessions, persisted, calls, app>>

StoreFindById ==
    /\ \E id \in 1..MaxStoreOps, readOk \in ReadOutcomes(file) :
          LET g == get_order_by_id(file, id, readOk)
          IN  last' = [op |-> "find_by_id", id |-> id, raised |-> g.raised,
                       val |-> g.val, readable |-> (file.kind = "ok" /\ readOk)]
    /\ UNCHANGED <<file, clock, trades, sessions, persisted, calls, app>>

StoreFilter ==
    /\ \E symbol \in {<<>>, <<"A">>}, instrument_type \in {"", "stock", "STOCK"},
          action \in {"", "buy"}, readOk \in ReadOutcomes(file) :
          LET r == search_orders(file, symbol, instrument_type, action, readOk)
          IN  last' = [op |-> "filter", symbol |-> symbol,
                       instrument_type |-> instrument_type, action |-> action,
                       raised |-> r.raised, val |-> r.val,
                       readable |-> (file.kind = "ok" /\ readOk)]
    /\ UNCHANGED <<file, clock, trades, sessions, persisted, calls, app>>

StoreNext ==
    StoreAppend \/ StoreUpdateStatus \/ StoreLoadAll \/ StoreFindById \/ StoreFilter

StoreSpec == Init /\ [][StoreNext]_vars

----------------------------------------------------------------------------
(* The record store called by several callers on one history file: a call  *)
(* reads the file, changes the list in memory and rewrites the file, and   *)
(* nothing in history.py holds a lock between the read and the write.      *)
(* os.makedirs raising ends an append before it reads: it is no step here. *)

\* a caller between the read and the write of save_order_to_history: rec
\* is the record it stamped and numbered, orders the list it will write
AppendCall(f, order_data, now, readOk) ==
    LET sv == save_order_to_history(f, order_data, now, readOk, "ok")
    IN  [pc |-> "write", op |-> "append", rec |-> sv.rec, orders |-> sv.file.recs,
         target |-> <<sv.rec["id"], now>>, changes |-> TRUE]

\* a caller between the read and the write of update_order_status: target
\* is the <<id, timestamp>> of the record whose status it changed in
\* memory, changes whether there was one
UpdateCall(f, order_history_id, new_status, now, readOk) ==
    LET h == load_order_history(f, readOk).val
        k == FirstWithId(h, order_history_id)
    IN  [pc |-> "write", op |-> "update_status",
         rec |-> [status |-> new_status],
         orders |-> update_order_status(f, order_history_id, new_status, now,
                                        readOk, "ok").orders,
         target |-> IF k = 0 THEN <<0, 0>> ELSE <<h[k]["id"], h[k]["timestamp"]>>,
         changes |-> k # 0]

\* history of a run of concurrent callers: overlapped is whether some call
\* read while another call was between its read and its write, updated the
\* records whose status change a write stored
ConcInit ==
    /\ file = MissingFile
    /\ clock = 1
    /\ trades = <<>>
    /\ sessions = 0
    /\ persisted = <<>>
    /\ last = [op |-> "none", overlapped |-> FALSE, updated |-> {}]
    /\ calls = NoCalls
    /\ app = NewApp

\* caller p enters a store call and reads the file
BeginCall(p, call) ==
    /\ clock <= MaxStoreOps
    /\ calls[p] = Idle
    /\ calls' = [calls EXCEPT ![p] = call]
    /\ last' = [last EXCEPT !.op = "read",
                            !.overlapped = @ \/ \E q \in 1..MaxCallers : calls[q] # Idle]
    /\ clock' = clock + 1
    /\ UNCHANGED <<file, trades, sessions, persisted, app>>

ConcAppendRead ==
    \E p \in 1..MaxCallers, order_data \in StoreDrafts, readOk \in ReadOutcomes(file) :
        BeginCall(p, AppendCall(file, order_data, clock, readOk))

ConcUpdateRead ==
    \E p \in 1..MaxCallers, id \in 1..MaxStoreOps, readOk \in ReadOutcomes(file) :
        BeginCall(p, UpdateCall(file, id, "CANCEL_REQUESTED", clock, readOk))

\* caller p rewrites the file with the list it holds and returns
ConcWrite ==
    \E p \in 1..MaxCallers, w \in WriteOutcomes :
        LET c == calls[p]
            stored == w = "ok" /\ c.changes
        IN  /\ c # Idle
            /\ file' = WriteFile(file, c.orders, w)
            /\ calls' = [calls EXCEPT ![p] = Idle]
            /\ persisted' = IF stored /\ c.op = "append"
                            THEN Append(persisted, c.target) ELSE persisted
            /\ last' = [last EXCEPT !.op = c.op,
                                    !.updated = IF stored /\ c.op = "update_status"
                                                THEN @ \cup {c.target} ELSE @]
            /\ UNCHANGED <<clock, trades, sessions, app>>

ConcNext == ConcAppendRead \/ ConcUpdateRead \/ ConcWrite

ConcSpec == ConcInit /\ [][ConcNext]_vars

----------------------------------------------------------------------------
(* The threaded quote fetch, scripts/2_quick_quote.py: get_all_g10_quotes_ *)
(* threaded submits get_single_quote for every pair to a pool that has one *)
(* thread per pair, and each worker opens its own gateway session.         *)

\* pairs of g10_pairs that are fetched in one run
MaxPairs == 3

\* config/settings.py, the default of base_client_id
DEFAULT_CLIENT_ID == 5

\* the divisor of hash(pair) % 1000
HASH_DIVISOR == 1000

\* g10_pairs, in the order they are submitted
g10_pairs ==
    <<"EURGBP", "EURJPY", "GBPJPY", "EURUSD", "USDJPY", "GBPUSD", "USDCHF",
      "AUDUSD", "USDCAD", "NZDUSD", "USDSGD">>

\* the pairs of the run
QuotePairs == {g10_pairs[i] : i \in 1..MaxPairs}

\* values hash() can give a str: any 64-bit integer, negative ones
\* included, fixed for each string when the interpreter starts
\* (PYTHONHASHSEED); a sample of them
HashValues == {5, 17, 1005, -983}

\* the hash functions an interpreter run may have: different pairs are
\* given different hash values
HashFunctions ==
    {h \in [QuotePairs -> HashValues] : \A p, q \in QuotePairs : p # q => h[p] # h[q]}

\* client_id = base_client_id + hash(pair) % 1000, where % is Python's:
\* the result has the sign of the divisor
derive_client_id(hash, pair, base_client_id) ==
    base_client_id + (hash[pair] % HASH_DIVISOR)

QuoteInit ==
    /\ file = MissingFile
    /\ clock = 1
    /\ trades = <<>>
    /\ sessions = 0
    /\ persisted = <<>>
    /\ \E h \in HashFunctions : last = [op |-> "none", hash |-> h]
    /\ calls = [p \in QuotePairs |-> Idle]
    /\ app = NewApp

\* a worker thread starts get_single_quote(pair): it makes its event loop
\* and derives its client id
QuoteDerive ==
    /\ \E pair \in QuotePairs :
          /\ calls[pair] = Idle
          /\ calls' = [calls EXCEPT ![pair] =
                          [pc |-> "connecting",
                           client_id |-> derive_client_id(last.hash, pair,
                                                          DEFAULT_CLIENT_ID)]]
    /\ last' = [last EXCEPT !.op = "derive"]
    /\ UNCHANGED <<file, clock, trades, sessions, persisted, app>>

\* ib.connect(host, port, clientId=client_id): it returns with the session
\* open, or raises and the worker returns (pair, None)
QuoteConnect ==
    /\ \E pair \in QuotePairs, connectOk \in BOOLEAN :
          /\ calls[pair].pc = "connecting"
          /\ calls' = [calls EXCEPT ![pair] =
                          IF connectOk THEN [@ EXCEPT !.pc = "open"]
                          ELSE [pc |-> "done", client_id |-> @.client_id,
                                ticker |-> FALSE]]
          /\ sessions' = IF connectOk THEN sessions + 1 ELSE sessions
    /\ last' = [last EXCEPT !.op = "connect"]
    /\ UNCHANGED <<file, clock, trades, persisted, app>>

\* qualifyContracts, reqMktData, sleep, disconnect, return (pair, ticker);
\* when one of them raises, disconnect in the except branch and return
\* (pair, None)
QuoteFetch ==
    /\ \E pair \in QuotePairs, fetched \in BOOLEAN :
          /\ calls[pair].pc = "open"
          /\ calls' = [calls EXCEPT ![pair] =
                          [pc |-> "done", client_id |-> @.client_id,
                           ticker |-> fetched]]
    /\ sessions' = sessions - 1
    /\ last' = [last EXCEPT !.op = "fetch"]
    /\ UNCHANGED <<file, clock, trades, persisted, app>>

QuoteNext == QuoteDerive \/ QuoteConnect \/ QuoteFetch

QuoteSpec == QuoteInit /\ [][QuoteNext]_vars

----------------------------------------------------------------------------
(* The validators called on their own *)

\* prices of a bracket order, in price units, run from 0 to MaxPrice
MaxPrice == 3

\* quantities around every threshold of validate_quantity, and one inside
\* the forex band above the position limit
QuantitySamples ==
    UNION {{b - 1, b, b + 1} :
              b \in {0, FOREX_MIN_QUANTITY, MAX_POSITION_SIZE, FOREX_MAX_QUANTITY}}
    \cup {5000000}

ValidateQuantity ==
    /\ \E qty \in QuantitySamples, instrument_type \in {"forex", "stock", "option"} :
          last' = [op |-> "validate_quantity", quantity |-> qty,
                   instrument_type |-> instrument_type,
                   errors |-> validate_quantity(qty, instrument_type)]
    /\ UNCHANGED <<file, clock, trades, sessions, persisted, calls, app>>

ValidateBracketPrices ==
    /\ \E entry_price \in 0..MaxPrice, stop_loss_price \in 0..MaxPrice,
          take_profit_price \in 0..MaxPrice, action \in {"BUY", "SELL"},
          parent_type \in {1, 2} :
          last' = [op |-> "validate_bracket_prices", entry_price |-> entry_price,
                   stop_loss_price |-> stop_loss_price,
                   take_profit_price |-> take_profit_price, action |-> action,
                   parent_type |-> parent_type,
                   errors |-> validate_bracket_prices(entry_price, stop_loss_price,
                                  take_profit_price, action, parent_type)]
    /\ UNCHANGED <<file, clock, trades, sessions, persisted, calls, app>>

ValidatorNext == ValidateQuantity \/ ValidateBracketPrices

ValidatorSpec == Init /\ [][ValidatorNext]_vars

----------------------------------------------------------------------------
(* IBApi.get_next_order_id and the nextValidId callback, src/ibapi_client: *)
(* connect_to_ib starts app.run in a thread of its own, which delivers the *)
(* callbacks, while the caller's thread calls get_next_order_id.  No lock  *)
(* guards next_valid_order_id, and "self.next_valid_order_id += 1" is a    *)
(* load, an addition and a store between which the threads can switch.     *)

\* the order ids the gateway announces run from 1 to MaxOrderId
MaxOrderId == 2
\* nextValidId callbacks in one run
MaxCallbacks == 2
\* calls of get_next_order_id in one run
MaxIdCalls == 3

\* last.trace holds, for every call of get_next_order_id that ended,
\* whether a nextValidId had been received when it started, whether it
\* raised, and the value it returned (NONE for None)
IdInit ==
    /\ file = MissingFile
    /\ clock = 1
    /\ trades = <<>>
    /\ sessions = 0
    /\ persisted = <<>>
    /\ last = [op |-> "none", trace |-> <<>>, announced |-> NONE, callbacks |-> 0]
    /\ calls = [caller |-> Idle]
    /\ app = NewApp

\* nextValidId(orderId) on the API thread: the gateway announces an id
\* that is not below the one it announced before
NextValidId ==
    /\ last.callbacks < MaxCallbacks
    /\ \E orderId \in 1..MaxOrderId :
          /\ orderId >= last.announced
          /\ app' = [app EXCEPT !.next_valid_order_id = orderId]
          /\ last' = [last EXCEPT !.op = "nextValidId", !.announced = orderId,
                                  !.callbacks = @ + 1]
    /\ UNCHANGED <<file, clock, trades, sessions, persisted, calls>>

\* get_next_order_id: hasattr(self, 'next_valid_order_id') is true of
\* every IBApi object, since __init__ sets the attribute;
\* order_id = self.next_valid_order_id
GetNextOrderIdRead ==
    /\ calls["caller"] = Idle
    /\ Len(last.trace) < MaxIdCalls
    /\ calls' = [calls EXCEPT !["caller"] =
                    [pc |-> "load", order_id |-> app.next_valid_order_id,
                     received |-> last.callbacks > 0]]
    /\ last' = [last EXCEPT !.op = "read"]
    /\ UNCHANGED <<file, clock, trades, sessions, persisted, app>>

\* self.next_valid_order_id += 1, the load and the addition: None + 1
\* raises TypeError, which leaves get_next_order_id
GetNextOrderIdLoad ==
    /\ calls["caller"].pc = "load"
    /\ IF app.next_valid_order_id = NONE
       THEN /\ calls' = [calls EXCEPT !["caller"] = Idle]
            /\ last' = [last EXCEPT !.op = "raise",
                            !.trace = Append(@, [received |-> calls["caller"].received,
                                                 raised |-> TRUE, value |-> NONE])]
       ELSE /\ calls' = [calls EXCEPT !["caller"] =
                            [pc |-> "store", order_id |-> @.order_id,
                             received |-> @.received,
                             sum |-> app.next_valid_order_id + 1]]
            /\ last' = [last EXCEPT !.op = "load"]
    /\ UNCHANGED <<file, clock, trades, sessions, persisted, app>>

\* self.next_valid_order_id += 1, the store; return order_id
GetNextOrderIdStore ==
    /\ calls["caller"].pc = "store"
    /\ app' = [app EXCEPT !.next_valid_order_id = calls["caller"].sum]
    /\ calls' = [calls EXCEPT !["caller"] = Idle]
    /\ last' = [last EXCEPT !.op = "return",
                    !.trace = Append(@, [received |-> calls["caller"].received,
                                         raised |-> FALSE,
                                         value |-> calls["caller"].order_id])]
    /\ UNCHANGED <<file, clock, trades, sessions, persisted>>

IdNext == NextValidId \/ GetNextOrderIdRead \/ GetNextOrderIdLoad \/ GetNextOrderIdStore

IdSpec == IdInit /\ [][IdNext]_vars

----------------------------------------------------------------------------
(* The live pending set and the cancellation flows:                        *)
(* get_pending_orders_from_ibkr (src/orders/history.py) and the *_live     *)
(* functions of scripts/3_order_submission.py, against a gateway whose     *)
(* orders change status on their own.                                      *)

\* orders the gateway knows when a run starts
MaxLive == 2

\* ib_insync OrderStatus.DoneStates
DoneStates == {"Filled", "Cancelled", "ApiCancelled"}

\* the statuses of the model, in the order the gateway moves through them
StatusRank ==
    [PendingSubmit |-> 1, PreSubmitted |-> 2, Submitted |-> 3, Inactive |-> 3,
     PendingCancel |-> 4, Filled |-> 5, Cancelled |-> 5]

LiveStatuses == DOMAIN StatusRank

\* what an order that is not done has become once ib.cancelOrder and the
\* waits that follow it have run
CancelReplies == {"PendingCancel", "Cancelled", "Filled"}

\* ib.openTrades(): the trades that are not done
openTrades(tr) ==
    LET Open(t) == t.status \notin DoneStates IN SelectSeq(tr, Open)

\* the order_info dict get_pending_orders_from_ibkr builds for a trade
OrderInfo(t) ==
    LET base == [trade |-> t, order_id |-> t.orderId, symbol |-> t.contract.symbol,
                 action |-> t.order.action, quantity |-> t.order.totalQuantity,
                 order_type |-> t.order.orderType, status |-> t.status]
        d1 == IF t.order.lmtPrice # 0 THEN Put(base, "limit_price", t.order.lmtPrice)
              ELSE base
    IN  IF t.order.auxPrice # 0 THEN Put(d1, "stop_price", t.order.auxPrice) ELSE d1

\* get_pending_orders_from_ibkr with the status list of the cancellation
\* flows, which leaves PendingCancel out
get_pending_orders_active_only(tr, failAt) ==
    LET ts == openTrades(tr)
        Pending(t) == t.status \in {"PreSubmitted", "Submitted", "PendingSubmit"}
        kept == SelectSeq(ts, Pending)
    IN  IF failAt # "none" THEN <<>>
        ELSE [i \in 1..Len(kept) |-> OrderInfo(kept[i])]

\* get_pending_orders_from_ibkr(): failAt is the gateway call that raises
\* ("connect", "openTrades") or "none"; an exception is printed and [] is
\* returned; ib.disconnect() runs in finally
get_pending_orders_from_ibkr(tr, failAt) ==
    LET ts == openTrades(tr)
        Pending(t) == t.status \in {"PreSubmitted", "Submitted", "PendingSubmit",
                                    "PendingCancel"}
        kept == SelectSeq(ts, Pending)
    IN  IF failAt # "none" THEN <<>>
        ELSE [i \in 1..Len(kept) |-> OrderInfo(kept[i])]

\* the gateway's orders after cancel requests for the order ids in ids:
\* reply[id] is what the order has become if it was not done
RequestCancel(tr, ids, reply) ==
    [i \in 1..Len(tr) |->
        IF tr[i].orderId \in ids /\ tr[i].status \notin DoneStates
        THEN [tr[i] EXCEPT !.status = reply[tr[i].orderId]]
        ELSE tr[i]]

\* what a cancellation flow did: the cancel requests it sent, its calls of
\* ib.openTrades after them, what it printed (remaining is the count that
\* cancel_all_pending_orders_live prints, NoCount elsewhere), the sessions
\* it left open: ib.disconnect() is the whole finally block of each flow
NoCount == -1
Cancellation(tr, opened, requested, requeries, report) ==
    [trades |-> tr, opened |-> opened, requested |-> requested,
     requeries |-> requeries, report |-> report, remaining |-> NoCount,
     sessions |-> 0]

\* cancel_single_order_live(order_info): connectOk is whether
\* connect_to_ibkr returns a session, cancelRaises whether ib.cancelOrder
\* raises
cancel_single_order_live(order_info, connectOk, cancelRaises, reply, tr) ==
    LET order_id == order_info["order_id"]
        tr2 == RequestCancel(tr, {order_id}, reply)
        updated_trades == openTrades(tr2)
        still_pending ==
            \E i \in 1..Len(updated_trades) :
                /\ updated_trades[i].orderId = order_id
                /\ updated_trades[i].status \in {"PreSubmitted", "Submitted",
                                                 "PendingSubmit"}
    IN  IF ~connectOk THEN Cancellation(tr, FALSE, {}, 0, "not connected")
        ELSE IF cancelRaises THEN Cancellation(tr, TRUE, {}, 0, "error")
        ELSE Cancellation(tr2, TRUE, {order_id}, 1,
                          IF still_pending THEN "being processed"
                          ELSE "successfully cancelled")

\* cancel_all_pending_orders_live(pending_orders): raising are the order
\* ids whose ib.cancelOrder raises; the report is remaining_count
cancel_all_pending_orders_live(pending_orders, connectOk, raising, reply, tr) ==
    LET ids == {pending_orders[i]["order_id"] : i \in 1..Len(pending_orders)}
        sent == ids \ raising
        tr2 == RequestCancel(tr, sent, reply)
        remaining_trades == openTrades(tr2)
        remaining_count ==
            Cardinality({i \in 1..Len(remaining_trades) :
                remaining_trades[i].status \in {"PreSubmitted", "Submitted",
                                                "PendingSubmit"}})
    IN  IF ~connectOk THEN Cancellation(tr, FALSE, {}, 0, "not connected")
        ELSE [Cancellation(tr2, TRUE, sent, 1, "still pending")
              EXCEPT !.remaining = remaining_count]

\* next((o for o in pending if o['order_id'] == order_id), None): the place
\* of the first such order, 0 for None
FirstPending(pending, order_id) ==
    LET hits == {i \in 1..Len(pending) : pending[i]["order_id"] = order_id}
    IN  IF hits = {} THEN 0 ELSE CHOOSE i \in hits : \A j \in hits : i <= j

\* cancel_order_by_id(order_id): the request is sent without any lookup
cancel_order_by_id(order_id, failAt, connectOk, cancelRaises, reply, tr) ==
    IF ~connectOk THEN Cancellation(tr, FALSE, {}, 0, "not connected")
    ELSE IF cancelRaises THEN Cancellation(tr, TRUE, {}, 0, "error")
    ELSE Cancellation(RequestCancel(tr, {order_id}, reply), TRUE, {order_id}, 0,
                      "request sent")

\* cancel_order_by_id_live(order_id): failAt is the outcome of the gateway
\* calls inside get_pending_orders_from_ibkr
cancel_order_by_id_live(order_id, failAt, connectOk, cancelRaises, reply, tr) ==
    LET pending == get_pending_orders_from_ibkr(tr, failAt)
        k == FirstPending(pending, order_id)
    IN  IF k # 0
        THEN cancel_single_order_live(pending[k], connectOk, cancelRaises, reply, tr)
        ELSE Cancellation(tr, failAt # "connect", {}, 0, "not found")

\* cancel_orders_menu(): choice is the menu entry ("1" by number, "2" by
\* order id, "3" all, "5" back), num the number typed after it, confirm
\* the answer to "Cancel ALL"
cancel_orders_menu(choice, num, confirm, failAt, connectOk, raising, reply, tr) ==
    LET pending == get_pending_orders_from_ibkr(tr, failAt)
        k == FirstPending(pending, num)
        fetched == failAt # "connect"
    IN  IF pending = <<>> THEN Cancellation(tr, fetched, {}, 0, "no pending orders")
        ELSE CASE choice = "1" ->
                    IF 1 <= num /\ num <= Len(pending)
                    THEN cancel_single_order_live(pending[num], connectOk,
                             pending[num]["order_id"] \in raising, reply, tr)
                    ELSE Cancellation(tr, fetched, {}, 0, "invalid order number")
               [] choice = "2" ->
                    IF k # 0
                    THEN cancel_single_order_live(pending[k], connectOk,
                             num \in raising, reply, tr)
                    ELSE Cancellation(tr, fetched, {}, 0, "not found")
               [] choice = "3" ->
                    IF confirm
                    THEN cancel_all_pending_orders_live(pending, connectOk,
                                                        raising, reply, tr)
                    ELSE Cancellation(tr, fetched, {}, 0, "cancelled")
               [] OTHER -> Cancellation(tr, fetched, {}, 0, "back")

\* the orders the gateway may hold when a run starts: order ids 1, 2, ..
\* in any status
LiveTrades ==
    LET T(n) == [1..n -> LiveStatuses]
        Trade(i, st) == [orderId |-> i, contract |-> [secType |-> "STK", symbol |-> <<"A">>],
                         order |-> LimitOrder("BUY", 100, 20), status |-> st]
    IN  UNION {{[i \in 1..n |-> Trade(i, f[i])] : f \in T(n)} : n \in 0..MaxLive}

\* the history file of a live run: the record of order 1 as
\* simple_order_workflow stored it, whatever the gateway says now
LiveHistory ==
    OkFile(<<[id |-> 1, timestamp |-> 1, symbol |-> <<"A">>, action |-> "BUY",
              quantity |-> 100, exchange |-> "SMART", currency |-> "USD",
              instrument_type |-> "stock", order_type_num |-> 2,
              order_type |-> "Limit Order", limit_price |-> 20,
              order_id |-> 1, status |-> "PendingSubmit"]>>)

LiveInit ==
    /\ file = LiveHistory
    /\ clock = 2
    /\ trades \in LiveTrades
    /\ sessions = 0
    /\ persisted = <<<<1, 1>>>>
    /\ last = [op |-> "none"]
    /\ calls = NoCalls
    /\ app = NewApp

\* the effect of a cancellation flow whose outcome is res; last.before
\* keeps the gateway's orders as the flow found them
LiveApply(op, input, res) ==
    /\ trades' = res.trades
    /\ sessions' = sessions + res.sessions
    /\ last' = [op |-> op, input |-> input, opened |-> res.opened,
                requested |-> res.requested, requeries |-> res.requeries,
                report |-> res.report, remaining |-> res.remaining,
                before |-> trades, fileBefore |-> file]
    /\ UNCHANGED <<file, clock, persisted, calls, app>>

\* the outcomes of the gateway calls of get_pending_orders_from_ibkr
PendingRuns == {"none", "connect", "openTrades"}

\* the gateway during one cancellation: no session, ib.cancelOrder raises,
\* or the request is sent and the order becomes reply
SingleRuns ==
    {[connectOk |-> FALSE, cancelRaises |-> FALSE, reply |-> "PendingCancel"],
     [connectOk |-> TRUE, cancelRaises |-> TRUE, reply |-> "PendingCancel"]}
    \cup {[connectOk |-> TRUE, cancelRaises |-> FALSE, reply |-> r] : r \in CancelReplies}

\* the gateway during a batch of cancellations of the order ids in ids:
\* the ids whose ib.cancelOrder raises, what each other order becomes
BatchRuns(ids) ==
    {[connectOk |-> FALSE, raising |-> {}, reply |-> [i \in ids |-> "PendingCancel"]]}
    \cup UNION {{[connectOk |-> TRUE, raising |-> R, reply |-> f] :
                    f \in [ids \ R -> CancelReplies]} : R \in SUBSET ids}

\* the same reply for every order
AllBecome(r) == [i \in 1..MaxLive |-> r]

GetPending ==
    /\ \E failAt \in PendingRuns :
          last' = [op |-> "get_pending", snapshot |-> (failAt = "none"),
                   val |-> get_pending_orders_from_ibkr(trades, failAt)]
    /\ UNCHANGED <<file, clock, trades, sessions, persisted, calls, app>>

\* cancel_single_order_live on an order_info that an earlier
\* get_pending_orders_from_ibkr returned: the order may be done by now
CancelOne ==
    \E k \in 1..Len(trades), run \in SingleRuns :
        LET order_info == OrderInfo(trades[k])
        IN  LiveApply("cancel_one", [order_id |-> order_info["order_id"]],
                      cancel_single_order_live(order_info, run.connectOk,
                          run.cancelRaises, AllBecome(run.reply), trades))

CancelAll ==
    \E S \in SUBSET (1..Len(trades)) :
        /\ S # {}
        /\ \E run \in BatchRuns(S) :
            LET Chosen(t) == t.orderId \in S
                chosen == SelectSeq(trades, Chosen)
                pending_orders == [i \in 1..Len(chosen) |-> OrderInfo(chosen[i])]
            IN  LiveApply("cancel_all",
                          [ids |-> S, raising |-> run.raising],
                          cancel_all_pending_orders_live(pending_orders,
                              run.connectOk, run.raising, run.reply, trades))

CancelById ==
    \E order_id \in 1..(MaxLive + 1), failAt \in PendingRuns, run \in SingleRuns :
        LiveApply("cancel_by_id", [order_id |-> order_id, failAt |-> failAt],
                  cancel_order_by_id_live(order_id, failAt, run.connectOk,
                      run.cancelRaises, AllBecome(run.reply), trades))

CancelMenu ==
    \/ \E choice \in {"1", "2"}, num \in 1..(MaxLive + 1), failAt \in PendingRuns,
          run \in SingleRuns :
          LiveApply("menu", [choice |-> choice, order_id |-> num, failAt |-> failAt],
                    cancel_orders_menu(choice, num, FALSE, failAt, run.connectOk,
                        IF run.cancelRaises THEN 1..MaxLive ELSE {},
                        AllBecome(run.reply), trades))
    \/ \E failAt \in PendingRuns, run \in BatchRuns(1..Len(trades)) :
          LiveApply("menu", [choice |-> "3", order_id |-> 0, failAt |-> failAt],
                    cancel_orders_menu("3", 0, TRUE, failAt, run.connectOk,
                        run.raising, run.reply, trades))
    \/ \E choice \in {"3", "5"}, failAt \in PendingRuns :
          LiveApply("menu", [choice |-> choice, order_id |-> 0, failAt |-> failAt],
                    cancel_orders_menu(choice, 0, FALSE, failAt, TRUE, {},
                        AllBecome("PendingCancel"), trades))

\* the gateway moves an order that is not done to a later status
GatewayProgress ==
    /\ \E k \in 1..Len(trades), st \in LiveStatuses :
          /\ trades[k].status \notin DoneStates
          /\ StatusRank[st] > StatusRank[trades[k].status]
          /\ trades' = [trades EXCEPT ![k].status = st]
    /\ last' = [op |-> "gateway"]
    /\ UNCHANGED <<file, clock, sessions, persisted, calls, app>>

LiveNext ==
    GetPending \/ CancelOne \/ CancelAll \/ CancelById \/ CancelMenu \/ GatewayProgress

LiveSpec == LiveInit /\ [][LiveNext]_vars

----------------------------------------------------------------------------
(* Properties of the submission workflows, under Spec *)

\* the submission paths: option, simple stock, stock bracket, clone
SubmissionOps == {"option", "simple", "bracket", "clone"}

\* the places in the file of the records stamped with the time now
RecordsOf(now) == {i \in 1..Len(file.recs) : file.recs[i]["timestamp"] = now}

\* the ids of the records of a list
Ids(recs) == {recs[i]["id"] : i \in 1..Len(recs)}

\* C1: an order whose aggregate validation yields at least one error is
\* never sent: on the stock, option and clone paths no session is opened,
\* no order is placed and no record is persisted for it.
C1_InvalidOrderNeverSent ==
    (/\ last.op \in {"option", "simple", "clone"}
     /\ DOMAIN last.draft # {}
     /\ ValidationErrors(last.draft) # <<>>)
    => (/\ ~last.opened
        /\ last.placed = <<>>
        /\ last.saves = 0
        /\ RecordsOf(last.now) = {})

\* C2: once a submission attempt reached the gateway boundary (an order was
\* placed or a gateway call raised), exactly one record of that attempt is
\* in the persisted history, whatever happened afterwards.
C2_ExactlyOneRecordPerAttempt ==
    (last.op \in SubmissionOps /\ last.reached)
    => Cardinality(RecordsOf(last.now)) = 1

\* C3: when a gateway call of an option, simple stock or clone submission
\* raised, the attempt is persisted as a record with status ERROR whose
\* error field is the exception's message, and no exception left the
\* workflow.
C3_GatewayErrorRecorded ==
    (last.op \in {"option", "simple", "clone"} /\ last.raised # "")
    => (/\ ~last.escaped
        /\ \E i \in RecordsOf(last.now) :
              /\ Get(file.recs[i], "status", "") = "ERROR"
              /\ Get(file.recs[i], "error", "") = last.raised)

\* C5: the store is append-only: every record a write stored is still in
\* the file, under its id and timestamp, after any sequence of submissions,
\* clones and cancellations, and a cancellation leaves the set of stored
\* ids as it found it.
C5_AppendOnly ==
    /\ \A k \in 1..Len(persisted) :
          \E i \in 1..Len(file.recs) :
              /\ file.recs[i]["id"] = persisted[k][1]
              /\ file.recs[i]["timestamp"] = persisted[k][2]
    /\ last.op = "cancel" => Ids(file.recs) = Ids(last.before.recs)

----------------------------------------------------------------------------
(* Properties of the record store, under StoreSpec *)

\* C4: append gives the new record the id (records already stored) + 1;
\* after any sequence of append and update_status the stored ids are 1..n
\* in insertion order, and no id is assigned twice.
C4_IdsSequentialNeverReused ==
    /\ \A i \in 1..Len(file.recs) : file.recs[i]["id"] = i
    /\ \A j, k \in 1..Len(persisted) : j # k => persisted[j][1] # persisted[k][1]
    /\ last.op = "append" => last.rec["id"] = Len(last.before.recs) + 1

\* C6: a write of append or update_status that fails leaves the file
\* holding the complete new collection or the complete previous one, never
\* an empty or truncated text.
C6_FailedWriteKeepsWholeFile ==
    (last.op \in {"append", "update_status"} /\ last.w # "ok")
    => (file = last.before \/ file = OkFile(last.intended))

\* C7: when the file cannot be written the store call tells its caller:
\* append does not return as if the record had been saved, update_status
\* returns false.
C7_WriteFailureReported ==
    /\ (last.op = "append" /\ last.w # "ok") => (last.raised \/ last.ret # "None")
    /\ (last.op = "update_status" /\ last.w # "ok") => last.ret = FALSE

\* C8: update_status(id, new_status) changes the status and updated_at of
\* the first record with that id and nothing else: every other field of
\* that record and every other record stay, and the collection is
\* unchanged when no record has that id.
C8_UpdateStatusFrame ==
    last.op = "update_status"
    => LET b == last.before.recs
           a == file.recs
           k == FirstWithId(b, last.id)
           Rest(r) == DOMAIN r \ {"status", "updated_at"}
       IN  /\ Len(a) = Len(b)
           /\ \A i \in 1..Len(b) :
                 IF i = k
                 THEN /\ Rest(a[i]) = Rest(b[i])
                      /\ \A x \in Rest(b[i]) : a[i][x] = b[i][x]
                 ELSE a[i] = b[i]

\* C9: after append(record), load_all() holds a record equal to the input
\* in every field but the added id and timestamp, and find_by_id on the
\* assigned id returns that record.
C9_AppendRoundTrip ==
    (last.op = "append" /\ ~last.raised)
    => LET all == load_order_history(file, TRUE).val
           got == get_order_by_id(file, last.rec["id"], TRUE).val
       IN  /\ \E i \in 1..Len(all) :
                 /\ all[i] = last.rec
                 /\ Pop(Pop(all[i], "id"), "timestamp") = last.input
           /\ got = <<last.rec>>

\* C10: load_all never raises and returns the empty sequence when the file
\* is missing, corrupt or unreadable; find_by_id and filter then return
\* absent / empty and raise nothing.
C10_ReadsNeverRaise ==
    last.op \in {"load_all", "find_by_id", "filter"}
    => (/\ ~last.raised
        /\ ~last.readable => last.val = <<>>)

\* find_by_id asked for a record the file holds, at a moment the file
\* could not be read: it returned absent
C10_Witness ==
    /\ last.op = "find_by_id"
    /\ file.kind = "ok"
    /\ FirstWithId(file.recs, last.id) # 0
    /\ ~last.readable
    /\ ~last.raised
    /\ last.val = <<>>

----------------------------------------------------------------------------
(* Sessions, clones and brackets, under Spec *)

\* C11: every operation that opens a gateway session has disconnected it
\* by the time it returns or raises, on every exit path, a failure while
\* saving the record included: no session is left open.
C11_SessionsReleased == sessions = 0

\* the record a clone stored, and the record it was cloned from
CloneRecord == file.recs[Len(file.recs)]
CloneSource == last.before.recs[FirstWithId(last.before.recs, last.order_id)]

\* C16: the record persisted for a clone has a fresh id and timestamp,
\* carries the source's symbol, action, quantity, order kind and prices
\* except where an override was given, and has neither the source's
\* gateway order id nor a status inherited from it.
C16_CloneRecordFields ==
    (last.op = "clone" /\ last.stored)
    => LET r == CloneRecord
           src == CloneSource
           ov == last.overrides
       IN  /\ r["id"] \notin Ids(last.before.recs)
           /\ r["timestamp"] = last.now
           /\ \A i \in 1..Len(last.before.recs) :
                 last.before.recs[i]["timestamp"] # r["timestamp"]
           /\ r["symbol"] = (IF ov.symbol # <<>> THEN ov.symbol ELSE src["symbol"])
           /\ r["quantity"] = (IF ov.quantity # 0 THEN ov.quantity ELSE src["quantity"])
           /\ r["action"] = (IF ov.action # "" THEN ov.action ELSE src["action"])
           /\ \A x \in {"order_type", "order_type_num", "limit_price", "stop_price"} :
                 /\ x \in DOMAIN r <=> x \in DOMAIN src
                 /\ x \in DOMAIN r => r[x] = src[x]
           /\ "order_id" \in DOMAIN r => <<r["order_id"]>> = last.placed
           /\ r["status"] = (IF last.raised # "" THEN "ERROR"
                             ELSE trades[Len(trades)].status)

\* C17: a clone whose draft, after the overrides, fails the aggregate
\* validation is never placed at the gateway.
C17_InvalidCloneNeverPlaced ==
    (/\ last.op = "clone"
     /\ DOMAIN last.draft # {}
     /\ ValidationErrors(last.draft) # <<>>)
    => (last.placed = <<>> /\ trades = last.tradesBefore)

\* C18: a clone of a record id that is not in the store fails fast: no
\* session is opened, no order is placed, no record is persisted.
C18_CloneOfAbsentIdFailsFast ==
    (last.op = "clone" /\ last.order_id \notin Ids(last.before.recs))
    => (/\ ~last.opened
        /\ last.placed = <<>>
        /\ trades = last.tradesBefore
        /\ last.saves = 0
        /\ file = last.before)

\* a clone was asked for id 2 of a store that holds record 1 only
C18_Witness ==
    /\ last.op = "clone"
    /\ Len(last.before.recs) = 1
    /\ last.order_id = 2
    /\ ~last.opened
    /\ file = last.before

\* the order id the gateway gave leg i (1 parent, 2 take profit, 3 stop
\* loss) of the last bracket submission, NONE when the leg was not placed
LegId(i) ==
    IF i \in last.legs THEN NONE
    ELSE Len(last.tradesBefore) + Cardinality({j \in 1..i : j \notin last.legs})

\* C19: a bracket submission that got as far as placing its legs is
\* persisted as BRACKET_SUBMITTED when at least one leg was placed, with an
\* identifier only for a leg that was placed, and as FAILED when none was;
\* the legs that were placed stay at the gateway.
C19_BracketPartialFailure ==
    (last.op = "bracket" /\ last.saves = 1 /\ last.raised \in {"", "place failed"})
    => /\ RecordsOf(last.now) # {}
       /\ \A i \in RecordsOf(last.now) :
             LET r == file.recs[i] IN
             IF last.legs = {1, 2, 3}
             THEN r["status"] = "FAILED"
             ELSE /\ r["status"] = "BRACKET_SUBMITTED"
                  /\ last.legs # {} =>
                        /\ r["parent_order_id"] \in {NONE, LegId(1)}
                        /\ r["take_profit_order_id"] \in {NONE, LegId(2)}
                        /\ r["stop_loss_order_id"] \in {NONE, LegId(3)}
       /\ \A i \in {1, 2, 3} \ last.legs :
             \E k \in 1..Len(trades) : trades[k].orderId = LegId(i)

\* C20: when the qualification of the instrument fails, the submission is
\* aborted before any order is placed and nothing is persisted for it.
C20_QualifyFailureLeavesNoRecord ==
    (last.op \in SubmissionOps /\ last.raised = ErrorMessage("qualify"))
    => (/\ last.placed = <<>>
        /\ trades = last.tradesBefore
        /\ last.saves = 0
        /\ RecordsOf(last.now) = {})

----------------------------------------------------------------------------
(* The live pending set and cancellation, under LiveSpec *)

\* the statuses of an order the gateway still works
NonTerminal == {"PendingSubmit", "PreSubmitted", "Submitted", "PendingCancel"}

\* the order ids of tr in a non-terminal status
LiveIds(tr) == {tr[i].orderId : i \in {j \in 1..Len(tr) : tr[j].status \in NonTerminal}}

C13_CancelOneReport ==
    (last.op = "cancel_one" /\ last.requested # {})
    => /\ last.requested = {last.input.order_id}
       /\ last.requeries = 1
       /\ last.report = (IF last.input.order_id \in LiveIds(trades)
                         THEN "being processed" ELSE "successfully cancelled")

\* C14: cancel_by_id looks the id up in the live pending set; when the id
\* is not in the set it found, it reports not found, sends no cancel
\* request and changes no record, and otherwise it cancels through
\* cancel_one; no request is sent for an id outside the live pending set.
C14_CancelByIdLooksUpLive ==
    (last.op = "cancel_by_id" \/ (last.op = "menu" /\ last.input.choice = "2"
                                  /\ last.report # "no pending orders"))
    => LET id == last.input.order_id
           found == get_pending_orders_from_ibkr(last.before, last.input.failAt)
       IN  /\ last.requested \subseteq LiveIds(last.before)
           /\ last.requested \subseteq {id}
           /\ file = last.fileBefore
           /\ IF FirstPending(found, id) = 0
              THEN /\ last.report = "not found"
                   /\ last.requested = {}
                   /\ trades = last.before
              ELSE last.report \in {"not connected", "error", "being processed",
                                    "successfully cancelled"}

\* cancel_by_id was asked for an order the gateway holds as filled: it
\* reported not found and sent nothing
C14_Witness ==
    /\ last.op = "cancel_by_id"
    /\ last.input.failAt = "none"
    /\ \E i \in 1..Len(last.before) :
          /\ last.before[i].orderId = last.input.order_id
          /\ last.before[i].status = "Filled"
    /\ LiveIds(last.before) # {}
    /\ last.report = "not found"
    /\ last.requested = {}

\* C15: cancel_all sends a cancel request for every order of its input
\* but those whose request raises, re-queries once and reports the number
\* of orders still in a non-terminal status.
C15_CancelAllReport ==
    (last.op = "cancel_all" /\ last.opened)
    => /\ last.requested = last.input.ids \ last.input.raising
       /\ last.requeries = 1
       /\ last.remaining = Cardinality(LiveIds(trades))

----------------------------------------------------------------------------
(* The fields of the persisted records, under Spec *)

\* C21: in every persisted record the error field is present if and only
\* if the status is ERROR or FAILED, whether the record was written by a
\* direct submission, a bracket submission or a clone.
C21_ErrorIffErrorStatus ==
    \A i \in 1..Len(file.recs) :
        ("error" \in DOMAIN file.recs[i])
            <=> (Get(file.recs[i], "status", "") \in {"ERROR", "FAILED"})

\* C22: every persisted record that is not a bracket record has
\* limit_price exactly when its order kind is Limit or StopLimit and
\* stop_price exactly when its kind is Stop or StopLimit, whether it was
\* written by a direct submission or by a clone, a clone that changes the
\* order kind included.
C22_PricesMatchOrderKind ==
    \A i \in 1..Len(file.recs) :
        LET r == file.recs[i] IN
        r["order_type"] # "Bracket Order"
        => /\ ("limit_price" \in DOMAIN r) <=> (r["order_type_num"] \in {2, 4})
           /\ ("stop_price" \in DOMAIN r) <=> (r["order_type_num"] \in {3, 4})

----------------------------------------------------------------------------
(* The record store under concurrent callers, under ConcSpec *)

\* a record with that <<id, timestamp>> is in the file
InFile(t) ==
    \E i \in 1..Len(file.recs) :
        file.recs[i]["id"] = t[1] /\ file.recs[i]["timestamp"] = t[2]

\* C23: as long as no two append / update_status calls overlapped between
\* their read and their write, no update is lost: every record an append
\* stored is in the file, the stored records have distinct ids, and every
\* status change an update_status stored is visible.
C23_SerializedCallsLoseNothing ==
    ~last.overlapped
    => /\ \A k \in 1..Len(persisted) : InFile(persisted[k])
       /\ \A j, k \in 1..Len(persisted) : j # k => persisted[j][1] # persisted[k][1]
       /\ \A t \in last.updated :
             \E i \in 1..Len(file.recs) :
                 /\ file.recs[i]["id"] = t[1]
                 /\ file.recs[i]["timestamp"] = t[2]
                 /\ file.recs[i]["status"] = "CANCEL_REQUESTED"

----------------------------------------------------------------------------
(* The threaded quote fetch, under QuoteSpec *)

\* the workers that hold a client id for a session that is being opened
\* or is open
Connected == {p \in DOMAIN calls : calls[p].pc \in {"connecting", "open"}}

\* C24: no two workers of the threaded quote fetch that are connected at
\* the same time use the same gateway client id: the ids derived for the
\* pairs are pairwise distinct.
C24_WorkerClientIdsDistinct ==
    \A p, q \in Connected : p # q => calls[p].client_id # calls[q].client_id

----------------------------------------------------------------------------
(* The validators, under ValidatorSpec *)

\* C25: validate_quantity returns invalid for every quantity q <= 0, and
\* for instrument type forex it returns valid for every q with
\* 1000 <= q <= 10,000,000 and invalid for every q outside that band.
C25_ForexQuantityBand ==
    last.op = "validate_quantity"
    => LET q == last.quantity
           valid == last.errors = <<>>
       IN  /\ q <= 0 => ~valid
           /\ last.instrument_type = "forex"
                 => (valid <=> (FOREX_MIN_QUANTITY <= q /\ q <= FOREX_MAX_QUANTITY))

\* whether validate_bracket_prices returned that message
Reported(msg) == \E i \in 1..Len(last.errors) : last.errors[i] = msg

\* C26: for an order with an entry price (all three prices positive),
\* validate_bracket_prices returns no error exactly when, for BUY,
\* stop_loss < entry < take_profit and, for SELL, take_profit < entry <
\* stop_loss; every violated relation has its own message in the list, so
\* BUY with stop_loss >= entry and SELL with take_profit >= entry are
\* reported whatever the parent order kind.
C26_BracketPriceRelations ==
    (/\ last.op = "validate_bracket_prices"
     /\ last.entry_price > 0 /\ last.stop_loss_price > 0 /\ last.take_profit_price > 0)
    => LET e == last.entry_price
           sl == last.stop_loss_price
           tp == last.take_profit_price
       IN  IF last.action = "BUY"
           THEN /\ (last.errors = <<>>) <=> (sl < e /\ e < tp)
                /\ sl >= e => Reported("For BUY orders, stop loss must be below entry price")
                /\ tp <= e => Reported("For BUY orders, take profit must be above entry price")
                /\ sl >= tp => Reported("For BUY orders, stop loss must be below take profit")
           ELSE /\ (last.errors = <<>>) <=> (tp < e /\ e < sl)
                /\ sl <= e => Reported("For SELL orders, stop loss must be above entry price")
                /\ tp >= e => Reported("For SELL orders, take profit must be below entry price")
                /\ sl <= tp => Reported("For SELL orders, stop loss must be above take profit")

----------------------------------------------------------------------------
(* The filter of the record store, under StoreSpec *)

\* C27: filter(symbol, instrument_type, action) on a file that can be read
\* returns, in insertion order, exactly the stored records that match
\* every supplied field by case-insensitive exact comparison; a filter
\* that is not supplied matches every record and the supplied ones
\* combine with AND.
C27_FilterCaseInsensitiveAnd ==
    (last.op = "filter" /\ last.readable)
    => LET Match(o) ==
               /\ last.symbol = <<>> \/ Upper(o["symbol"]) = Upper(last.symbol)
               /\ last.instrument_type = ""
                     \/ UpperStr(o["instrument_type"]) = UpperStr(last.instrument_type)
               /\ last.action = "" \/ UpperStr(o["action"]) = UpperStr(last.action)
       IN  last.val = SelectSeq(file.recs, Match)

----------------------------------------------------------------------------
(* The identifiers and prices of the orders sent, under Spec *)

\* C28: in a persisted bracket record each of parent_order_id,
\* stop_loss_order_id and take_profit_order_id is absent (None) or is the
\* id the gateway returned for the parent, the stop-loss and the
\* take-profit leg respectively, also when all three legs were placed.
C28_BracketIdsByRole ==
    (last.op = "bracket" /\ last.stored /\ last.raised \in {"", "place failed"})
    => \A i \in RecordsOf(last.now) :
          LET r == file.recs[i] IN
          r["status"] = "BRACKET_SUBMITTED"
          => /\ r["parent_order_id"] \in {NONE, LegId(1)}
             /\ r["take_profit_order_id"] \in {NONE, LegId(2)}
             /\ r["stop_loss_order_id"] \in {NONE, LegId(3)}

\* C29: for a StopLimit order, every submission path hands the limit price
\* and the stop price to the broker order in the same roles: the limit
\* and stop prices of the order sent to the gateway are the limit_price
\* and stop_price of the record of that order.
C29_StopLimitPriceRoles ==
    (/\ last.op \in {"option", "simple", "clone", "clone_order"}
     /\ last.placed # <<>>
     /\ last.draft["order_type_num"] = 4)
    => LET sent == trades[Len(trades)].order
       IN  /\ sent.orderType = "STP LMT"
           /\ sent.lmtPrice = last.draft["limit_price"]
           /\ sent.auxPrice = last.draft["stop_price"]

----------------------------------------------------------------------------
(* The order id counter of IBApi, under IdSpec *)

\* C30: a call of get_next_order_id made while no nextValidId has been
\* received returns None and raises nothing; the calls made after one has
\* been received return strictly increasing ids, none of them twice,
\* however the callbacks interleave with the calls.
C30_NextOrderId ==
    /\ \A i \in 1..Len(last.trace) :
          ~last.trace[i].received
          => (~last.trace[i].raised /\ last.trace[i].value = NONE)
    /\ \A i, j \in 1..Len(last.trace) :
          (i < j /\ last.trace[i].received /\ last.trace[j].received)
          => /\ ~last.trace[i].raised /\ ~last.trace[j].raised
             /\ last.trace[i].value # NONE
             /\ last.trace[i].value < last.trace[j].value

====
